---- MODULE Spec2Model ----
(***************************************************************************)
(* picbox: the Dropbox job submission with retry (Dropbox.prototype.saveUrlP *)
(* and saveUrl) and the Redis-backed dedup cache and counters of            *)
(* app/storage (the Storage prototype).                                     *)
(*                                                                          *)
(* The specifications share the variables: SpecDropbox moves only the       *)
(* submission state, SpecCache and SpecCounter only the Redis state.        *)
(***************************************************************************)
EXTENDS Integers, Sequences, FiniteSets, TLC

VARIABLES
  \* ---- Dropbox (src/unnamed/part_000) ----
  _this,      \* the implicit global `_this` assigned by saveUrlP / saveUrl
  retry,      \* params.retry of each params object (NoRetry or a number)
  pc,         \* where the submission of each params object stands
  inflight,   \* provider requests issued and not yet answered, per params
  timers,     \* armed backoff timers (Q.delay / setTimeout), per params
  deferreds,  \* saveUrlP: the Q.defer() of each nested call, outermost first
  cbCalls,    \* saveUrl: the calls made to the caller's cb, in order
  uncaught,   \* the exceptions thrown out of an event-loop callback
  hist,       \* per params, history of the current invocation (see NoHist)
  \* ---- Storage (src/app/storage/index.js) ----
  redis,      \* the Redis keyspace: key -> value
  cmdq,       \* commands sent on the client's connection, not yet answered
  now,        \* Date.now()
  lastDone,   \* the operation whose Redis callback ran last, with its result
  track       \* history of the storage operations (see InitTrack)

dvars == <<_this, retry, pc, inflight, timers, deferreds, cbCalls, hist>>
svars == <<redis, cmdq, now, lastDone, track>>
vars == <<_this, retry, pc, inflight, timers, deferreds, cbCalls, uncaught, hist,
          redis, cmdq, now, lastDone, track>>

(***************************************************************************)
(* Bounds                                                                   *)
(***************************************************************************)
\* params.retry is not allowed to grow past this (a params object submitted
\* again with retry >= maxRetry never meets the ceiling test).
RetryCap == 11

Params == {"p1", "p2"}
Clients == {"dbx1", "dbx2"}

(***************************************************************************)
(* JavaScript values                                                        *)
(***************************************************************************)
undefined == "undefined"
\* params.retry of a params object that has no retry property (undefined);
\* a retry count is never negative
NoRetry == -1

\* 'Failed to grab locks'
LockNeedle ==
  <<"F","a","i","l","e","d"," ","t","o"," ","g","r","a","b"," ","l","o","c","k","s">>
\* 'Retries failed'
RetriesFailedMsg ==
  <<"R","e","t","r","i","e","s"," ","f","a","i","l","e","d">>

\* error strings a provider may send
MsgLockTryAgain == LockNeedle \o <<","," ","t","r","y"," ","a","g","a","i","n">>
MsgLockPrefixed == <<"4","2","3",":"," ">> \o LockNeedle
MsgNearMiss == SubSeq(LockNeedle, 1, Len(LockNeedle) - 1)
MsgOAuth ==
  <<"I","n","v","a","l","i","d"," ","O","A","u","t","h"," ","t","o","k","e","n">>
MsgEmpty == << >>
ErrorMessages == {MsgLockTryAgain, MsgLockPrefixed, MsgNearMiss, MsgOAuth, MsgEmpty}

\* a JS value: an object with its own properties, a string, an Error, undefined
Undef == [t |-> "undefined", fields |-> {}, error |-> << >>, text |-> ""]
PendingBody ==
  [t |-> "object", fields |-> {"status", "job"}, error |-> << >>, text |-> "J1"]
ErrorBody(msg) ==
  [t |-> "object", fields |-> {"error"}, error |-> msg, text |-> ""]
StringValue(s) == [t |-> "string", fields |-> {}, error |-> << >>, text |-> s]
NewError(msg) == [t |-> "Error", fields |-> {"message"}, error |-> msg, text |-> ""]
SyntaxError ==
  [t |-> "SyntaxError", fields |-> {"message"}, error |-> << >>, text |-> "Unexpected token <"]

\* What comes back for one request: a transport error, or a response body
\* (responseStr) that is JSON text for `obj`, or is not JSON at all.
NetError == [net |-> "error", json |-> FALSE, obj |-> Undef, str |-> ""]
JsonResponse(o) == [net |-> "ok", json |-> TRUE, obj |-> o, str |-> "json"]
GarbageResponse == [net |-> "ok", json |-> FALSE, obj |-> Undef, str |-> "<html>"]
Responses ==
  {NetError, GarbageResponse, JsonResponse(PendingBody)}
    \cup {JsonResponse(ErrorBody(m)) : m \in ErrorMessages}

\* String.prototype.indexOf: the first index (from 0) at which needle occurs, or -1
indexOf(s, needle) ==
  LET hits == {i \in 0..(Len(s) - Len(needle)) :
                 SubSeq(s, i + 1, i + Len(needle)) = needle}
  IN  IF hits = {} THEN -1 ELSE CHOOSE i \in hits : \A j \in hits : i <= j

hasOwnProperty(v, f) == v.t = "object" /\ f \in v.fields

\* JSON.parse(responseStr): the value, or a thrown SyntaxError
JSONparse(r) ==
  IF r.json THEN [ok |-> TRUE, value |-> r.obj]
  ELSE [ok |-> FALSE, value |-> SyntaxError]

\* request(..., {json: true}): the body handed to the callback is the parsed
\* value when the text parses, and the text itself when it does not
RequestJsonBody(r) ==
  IF JSONparse(r).ok THEN JSONparse(r).value ELSE StringValue(r.str)

(***************************************************************************)
(* Dropbox: saveUrlP and saveUrl                                            *)
(***************************************************************************)
\* this.maxRetry = 5, set by the constructor for every client
MaxRetry == 5
MaxRetryOfClient(c) == IF c = "dbx1" THEN MaxRetry ELSE MaxRetry - 2
maxRetry(c) == MaxRetry

\* params.retry || 0
OrZero(v) == IF v = NoRetry THEN 0 ELSE v

\* body.error.indexOf('Failed to grab locks') >= 0
IsLockErrorAny(msg) == TRUE
IsLockError(msg) == indexOf(msg, LockNeedle) >= 0

\* ++params.retry === _this.maxRetry
CeilingOffByOne(r, c) == r >= maxRetry(c) - 1
CeilingReached(r, c) == r = maxRetry(c)

\* 300 * params.retry
BackoffConstant(r) == 300
Backoff(r) == 300 * r

ConnReset == NewError(<<"E","C","O","N","N","R","E","S","E","T">>)

PendingDeferred == [state |-> "pending", value |-> Undef]
Resolved(v) == [state |-> "resolved", value |-> v]
Rejected(e) == [state |-> "rejected", value |-> e]

\* deferred.resolve / deferred.reject of the deferred of the innermost call
SettleInnermost(ds, d) == [ds EXCEPT ![Len(ds)] = d]

\* History of the current invocation for one params object:
\*   style      which entry point the caller used
\*   client     the client the caller called it on
\*   entry      params.retry after `params.retry || 0` of the caller's call
\*   calls      requests issued to the provider
\*   responses  answers received (transport errors included)
\*   locks      answers that were a lock-contention error
\*   last       the last answer
\*   delays     the backoff delays armed, in order
NoHist ==
  [style |-> "none", client |-> undefined, entry |-> 0, calls |-> 0,
   responses |-> 0, locks |-> 0,
   last |-> NetError, delays |-> << >>]

NoOutcome == [kind |-> "none", value |-> Undef]
\* what the caller has been given: the outermost promise, or the cb's arguments
Outcome(p) ==
  IF hist[p].style = "promise" THEN
    IF deferreds[p][1].state = "resolved"
      THEN [kind |-> "ok", value |-> deferreds[p][1].value]
    ELSE IF deferreds[p][1].state = "rejected"
      THEN [kind |-> "err", value |-> deferreds[p][1].value]
    ELSE NoOutcome
  ELSE IF hist[p].style = "callback" /\ cbCalls[p] # << >> THEN
    LET a == cbCalls[p][Len(cbCalls[p])]
    IN  IF a.err = Undef THEN [kind |-> "ok", value |-> a.res]
        ELSE [kind |-> "err", value |-> a.err]
  ELSE NoOutcome

Settled(p) == Outcome(p).kind # "none"

\* The caller may submit a params object that is fresh, or again once the
\* previous submission of it has been answered.
MaySubmit(p) == pc[p] = "idle" \/ (pc[p] = "returned" /\ Settled(p))

\* The params objects the caller holds at the start; the others are never
\* created ("absent").
InitDropboxFor(held) ==
  /\ _this = undefined
  /\ retry \in [Params -> {NoRetry, 0}]
  /\ \A p \in Params \ held : retry[p] = NoRetry
  /\ pc = [p \in Params |-> IF p \in held THEN "idle" ELSE "absent"]
  /\ inflight = [p \in Params |-> 0]
  /\ timers = [p \in Params |-> 0]
  /\ deferreds = [p \in Params |-> << >>]
  /\ cbCalls = [p \in Params |-> << >>]
  /\ hist = [p \in Params |-> NoHist]
  /\ uncaught = {}

\* one caller submitting one params object, again and again
InitDropbox == InitDropboxFor({"p1"})

\* The lock-contention answer r below the ceiling: the retry is put behind a
\* backoff, Q.delay(300 * params.retry) / setTimeout(..., 300 * params.retry).
\* params.retry has been incremented by the caller of this step.
ArmRetryEager(p, r) ==
  /\ timers' = [timers EXCEPT ![p] = @ + 1]
  /\ UNCHANGED inflight
  /\ hist' = [hist EXCEPT ![p].responses = @ + 1, ![p].locks = @ + 1,
                          ![p].last = r, ![p].calls = @ + 1,
                          ![p].delays = Append(@, Backoff(retry[p] + 1))]
  /\ pc' = [pc EXCEPT ![p] = "timer"]
ArmRetry(p, r) ==
  /\ timers' = [timers EXCEPT ![p] = @ + 1]
  /\ inflight' = [inflight EXCEPT ![p] = @ - 1]
  /\ hist' = [hist EXCEPT ![p].responses = @ + 1, ![p].locks = @ + 1,
                          ![p].last = r,
                          ![p].delays = Append(@, Backoff(retry[p] + 1))]
  /\ pc' = [pc EXCEPT ![p] = "timer"]

\* saveUrlP(params), called by the caller on client c (lines 120-134, 165)
SaveUrlP(c, p) ==
  /\ MaySubmit(p)
  /\ retry' = [retry EXCEPT ![p] = OrZero(@)]
  /\ _this' = c
  /\ deferreds' = [deferreds EXCEPT ![p] = <<PendingDeferred>>]
  /\ cbCalls' = [cbCalls EXCEPT ![p] = << >>]
  /\ inflight' = [inflight EXCEPT ![p] = @ + 1]
  /\ hist' = [hist EXCEPT ![p] = [NoHist EXCEPT !.style = "promise", !.client = c,
                                              !.entry = OrZero(retry[p]),
                                              !.calls = 1]]
  /\ pc' = [pc EXCEPT ![p] = "request"]
  /\ UNCHANGED <<timers, uncaught>>
  /\ UNCHANGED svars

\* the callback of request(options, ...) in saveUrlP (lines 134-164)
SaveUrlPCallback(p, r) ==
  /\ pc[p] = "request" /\ hist[p].style = "promise" /\ inflight[p] > 0
  /\ LET body == RequestJsonBody(r)
         answered == [hist EXCEPT ![p].responses = @ + 1, ![p].last = r]
     IN
     IF r.net = "error" THEN
       \* if (err) throw err
       /\ uncaught' = uncaught \cup {ConnReset}
       /\ inflight' = [inflight EXCEPT ![p] = @ - 1]
       /\ hist' = answered
       /\ pc' = [pc EXCEPT ![p] = "thrown"]
       /\ UNCHANGED <<retry, timers, deferreds>>
     ELSE IF hasOwnProperty(body, "error") THEN
       IF IsLockError(body.error) THEN
         /\ retry[p] + 1 <= RetryCap
         /\ retry' = [retry EXCEPT ![p] = @ + 1]
         /\ UNCHANGED uncaught
         /\ IF CeilingReached(retry[p] + 1, _this) THEN
              /\ deferreds' = [deferreds EXCEPT ![p] =
                     SettleInnermost(@, Rejected(NewError(RetriesFailedMsg)))]
              /\ inflight' = [inflight EXCEPT ![p] = @ - 1]
              /\ hist' = [answered EXCEPT ![p].locks = @ + 1]
              /\ pc' = [pc EXCEPT ![p] = "returned"]
              /\ UNCHANGED timers
            ELSE
              /\ ArmRetry(p, r)
              /\ UNCHANGED deferreds
       ELSE
         /\ deferreds' = [deferreds EXCEPT ![p] =
                SettleInnermost(@, Rejected(NewError(body.error)))]
         /\ inflight' = [inflight EXCEPT ![p] = @ - 1]
         /\ hist' = answered
         /\ pc' = [pc EXCEPT ![p] = "returned"]
         /\ UNCHANGED <<retry, timers, uncaught>>
     ELSE
       /\ deferreds' = [deferreds EXCEPT ![p] = SettleInnermost(@, Resolved(body))]
       /\ inflight' = [inflight EXCEPT ![p] = @ - 1]
       /\ hist' = answered
       /\ pc' = [pc EXCEPT ![p] = "returned"]
       /\ UNCHANGED <<retry, timers, uncaught>>
  /\ UNCHANGED <<_this, cbCalls>>
  /\ UNCHANGED svars

\* Q.delay(...).then(function () { return _this.saveUrlP(params); }): the
\* backoff has elapsed and saveUrlP runs again, on the client `_this` names now
\* (lines 144-147, then 120-134)
SaveUrlPRetry(p) ==
  /\ pc[p] = "timer" /\ hist[p].style = "promise" /\ timers[p] > 0
  /\ timers' = [timers EXCEPT ![p] = @ - 1]
  /\ retry' = [retry EXCEPT ![p] = OrZero(@)]
  /\ _this' = _this
  /\ deferreds' = [deferreds EXCEPT ![p] = Append(@, PendingDeferred)]
  /\ inflight' = [inflight EXCEPT ![p] = @ + 1]
  /\ hist' = [hist EXCEPT ![p].calls = @ + 1]
  /\ pc' = [pc EXCEPT ![p] = "request"]
  /\ UNCHANGED <<cbCalls, uncaught>>
  /\ UNCHANGED svars

\* .then(function (body) { deferred.resolve(body); })
\* .catch(function (err) { deferred.reject(err); }): the deferred of a call
\* takes the outcome of the nested call's promise (lines 148-153)
SaveUrlPThen(p, i) ==
  /\ hist[p].style = "promise"
  /\ i \in 1..(Len(deferreds[p]) - 1)
  /\ deferreds[p][i].state = "pending"
  /\ deferreds[p][i + 1].state # "pending"
  /\ deferreds' = [deferreds EXCEPT ![p][i] = deferreds[p][i + 1]]
  /\ UNCHANGED <<_this, retry, pc, inflight, timers, cbCalls, uncaught, hist>>
  /\ UNCHANGED svars

\* saveUrl(params, cb), called by the caller on client c (lines 168-180, 223)
SaveUrl(c, p) ==
  /\ MaySubmit(p)
  /\ retry' = [retry EXCEPT ![p] = OrZero(@)]
  /\ _this' = c
  /\ deferreds' = [deferreds EXCEPT ![p] = << >>]
  /\ cbCalls' = [cbCalls EXCEPT ![p] = << >>]
  /\ inflight' = [inflight EXCEPT ![p] = @ + 1]
  /\ hist' = [hist EXCEPT ![p] = [NoHist EXCEPT !.style = "callback", !.client = c,
                                              !.entry = OrZero(retry[p]),
                                              !.calls = 1]]
  /\ pc' = [pc EXCEPT ![p] = "request"]
  /\ UNCHANGED <<timers, uncaught>>
  /\ UNCHANGED svars

CbCall(e, v) == [err |-> e, res |-> v]

\* res.on('end', ...) in saveUrl: the whole body has arrived (lines 188-220)
SaveUrlEnd(p, r) ==
  /\ pc[p] = "request" /\ hist[p].style = "callback" /\ inflight[p] > 0
  /\ r.net = "ok"
  /\ LET parsed == JSONparse(r)
         response == parsed.value
         answered == [hist EXCEPT ![p].responses = @ + 1, ![p].last = r]
     IN
     IF ~parsed.ok THEN
       \* catch (e) { return cb(e); }
       /\ cbCalls' = [cbCalls EXCEPT ![p] = Append(@, CbCall(parsed.value, Undef))]
       /\ inflight' = [inflight EXCEPT ![p] = @ - 1]
       /\ hist' = answered
       /\ pc' = [pc EXCEPT ![p] = "returned"]
       /\ UNCHANGED <<retry, timers>>
     ELSE IF hasOwnProperty(response, "error") THEN
       IF IsLockError(response.error) THEN
         /\ retry[p] + 1 <= RetryCap
         /\ retry' = [retry EXCEPT ![p] = @ + 1]
         /\ IF CeilingReached(retry[p] + 1, _this) THEN
              /\ cbCalls' = [cbCalls EXCEPT ![p] =
                     Append(@, CbCall(NewError(RetriesFailedMsg), Undef))]
              /\ inflight' = [inflight EXCEPT ![p] = @ - 1]
              /\ hist' = [answered EXCEPT ![p].locks = @ + 1]
              /\ pc' = [pc EXCEPT ![p] = "returned"]
              /\ UNCHANGED timers
            ELSE
              /\ ArmRetry(p, r)
              /\ UNCHANGED cbCalls
       ELSE
         /\ cbCalls' = [cbCalls EXCEPT ![p] =
                Append(@, CbCall(NewError(response.error), Undef))]
         /\ inflight' = [inflight EXCEPT ![p] = @ - 1]
         /\ hist' = answered
         /\ pc' = [pc EXCEPT ![p] = "returned"]
         /\ UNCHANGED <<retry, timers>>
     ELSE
       /\ cbCalls' = [cbCalls EXCEPT ![p] = Append(@, CbCall(Undef, response))]
       /\ inflight' = [inflight EXCEPT ![p] = @ - 1]
       /\ hist' = answered
       /\ pc' = [pc EXCEPT ![p] = "returned"]
       /\ UNCHANGED <<retry, timers>>
  /\ UNCHANGED <<_this, deferreds, uncaught>>
  /\ UNCHANGED svars

\* saveUrl registers no handler for the request's 'error' event: a transport
\* error is emitted on `req` and thrown by the emitter (lines 173-223)
SaveUrlReqError(p) ==
  /\ pc[p] = "request" /\ hist[p].style = "callback" /\ inflight[p] > 0
  /\ uncaught' = uncaught \cup {ConnReset}
  /\ inflight' = [inflight EXCEPT ![p] = @ - 1]
  /\ hist' = [hist EXCEPT ![p].responses = @ + 1, ![p].last = NetError]
  /\ pc' = [pc EXCEPT ![p] = "thrown"]
  /\ UNCHANGED <<_this, retry, timers, deferreds, cbCalls>>
  /\ UNCHANGED svars

\* setTimeout(function () { _this.saveUrl(params, cb); }, ...) fires
\* (lines 207-209, then 168-180, 223)
SaveUrlTimeout(p) ==
  /\ pc[p] = "timer" /\ hist[p].style = "callback" /\ timers[p] > 0
  /\ timers' = [timers EXCEPT ![p] = @ - 1]
  /\ retry' = [retry EXCEPT ![p] = OrZero(@)]
  /\ _this' = _this
  /\ inflight' = [inflight EXCEPT ![p] = @ + 1]
  /\ hist' = [hist EXCEPT ![p].calls = @ + 1]
  /\ pc' = [pc EXCEPT ![p] = "request"]
  /\ UNCHANGED <<deferreds, cbCalls, uncaught>>
  /\ UNCHANGED svars

NextDropbox ==
  \/ \E c \in Clients, p \in Params : SaveUrlP(c, p)
  \/ \E p \in Params, r \in Responses : SaveUrlPCallback(p, r)
  \/ \E p \in Params : SaveUrlPRetry(p)
  \/ \E p \in Params : \E i \in 1..Len(deferreds[p]) : SaveUrlPThen(p, i)
  \/ \E c \in Clients, p \in Params : SaveUrl(c, p)
  \/ \E p \in Params, r \in Responses : SaveUrlEnd(p, r)
  \/ \E p \in Params : SaveUrlReqError(p)
  \/ \E p \in Params : SaveUrlTimeout(p)

(***************************************************************************)
(* Storage: the Redis keyspace and its commands                             *)
(***************************************************************************)
\* Date.now() runs from 1 to MaxNow
MaxNow == 2
\* the counts passed to one counter key add up to at most MaxSum
MaxSum == 3
\* connection failures in one run
MaxFaults == 1

\* the callers' asynchronous flows; each has one operation in progress at most
Callers == {"a", "b"}
Users == {"1"}
\* every value passed as userID: a user's id, and a string
UserIDs == Users \cup {"total"}
MediaIDs == {"m1", "m2"}
Counts == {0, 1, 2}

\* lines 36-44
CacheKeyIsCountKey(userID) == "picbox." \o userID \o ".saved.count"
getRedisCacheKey(userID) == "picbox." \o userID \o ".saved"
getUserSavedCountKey(userID) == "picbox." \o userID \o ".saved.count"
totalSavedCountKey == "picbox.total.saved.count"

Keys ==
  {getRedisCacheKey(u) : u \in UserIDs} \cup {getUserSavedCountKey(u) : u \in UserIDs}
    \cup {totalSavedCountKey}

\* a Redis value: no key, a string holding an integer, or a sorted set given
\* as its <<member, score>> pairs
NoKey == [type |-> "none", n |-> 0, z |-> {}]
IntString(n) == [type |-> "string", n |-> n, z |-> {}]
SortedSet(pairs) == [type |-> "zset", n |-> 0, z |-> pairs]

Members(v) == {e[1] : e \in v.z}

\* a reply handed to a command's callback as (err, reply)
NoError == Undef
Nil == [kind |-> "nil", n |-> 0]
IntReply(n) == [kind |-> "int", n |-> n]
\* a bulk string holding the decimal digits of n
BulkReply(n) == [kind |-> "bulk", n |-> n]
Answer(store, e, rep) == [store |-> store, err |-> e, reply |-> rep]

RedisError(text) == [t |-> "Error", fields |-> {"message"}, error |-> << >>, text |-> text]
WrongType == RedisError("WRONGTYPE Operation against a key holding the wrong kind of value")
WrongArity == RedisError("ERR wrong number of arguments for 'zadd' command")
ConnectionLost == RedisError("Redis connection gone")

\* INCRBY key n
IncrbySet(store, key, n) ==
  Answer([store EXCEPT ![key] = IntString(n)], NoError, IntReply(n))
Incrby(store, key, n) ==
  IF store[key].type = "zset" THEN Answer(store, WrongType, Nil)
  ELSE LET v == (IF store[key].type = "none" THEN 0 ELSE store[key].n) + n
       IN  Answer([store EXCEPT ![key] = IntString(v)], NoError, IntReply(v))

\* GET key
Get(store, key) ==
  IF store[key].type = "zset" THEN Answer(store, WrongType, Nil)
  ELSE IF store[key].type = "none" THEN Answer(store, NoError, Nil)
  ELSE Answer(store, NoError, BulkReply(store[key].n))

\* ZSCORE key member
Zscore(store, key, member) ==
  IF store[key].type = "string" THEN Answer(store, WrongType, Nil)
  ELSE IF member \in Members(store[key])
    THEN Answer(store, NoError,
                BulkReply((CHOOSE e \in store[key].z : e[1] = member)[2]))
  ELSE Answer(store, NoError, Nil)

\* ZADD key score member [score member ...], every member with the one score
ZaddNX(store, key, score, members) ==
  IF members = << >> THEN Answer(store, WrongArity, Nil)
  ELSE IF store[key].type = "string" THEN Answer(store, WrongType, Nil)
  ELSE LET new == {members[i] : i \in 1..Len(members)} \ Members(store[key])
       IN  Answer([store EXCEPT ![key] =
                      SortedSet(store[key].z \cup {<<m, score>> : m \in new})],
                  NoError, IntReply(Cardinality(new)))
Zadd(store, key, score, members) ==
  IF members = << >> THEN Answer(store, WrongArity, Nil)
  ELSE IF store[key].type = "string" THEN Answer(store, WrongType, Nil)
  ELSE LET new == {members[i] : i \in 1..Len(members)}
           kept == {e \in store[key].z : e[1] \notin new}
       IN  Answer([store EXCEPT ![key] =
                      SortedSet(kept \cup {<<m, score>> : m \in new})],
                  NoError, IntReply(Cardinality(new \ Members(store[key]))))

\* DEL key
DelNothing(store, key) == Answer(store, NoError, IntReply(0))
Del(store, key) ==
  Answer([store EXCEPT ![key] = NoKey], NoError,
         IntReply(IF store[key].type = "none" THEN 0 ELSE 1))

\* !!reply
NotReply(rep) == ~(rep.kind = "bulk" \/ (rep.kind = "int" /\ rep.n # 0))
Truthy(rep) == rep.kind = "bulk" \/ (rep.kind = "int" /\ rep.n # 0)

(***************************************************************************)
(* Storage: the operations                                                  *)
(***************************************************************************)
\* what a promise is resolved with: !!reply, reply itself, or nothing
BoolValue(b) == [kind |-> "bool", n |-> IF b THEN 1 ELSE 0]
NoValue == [kind |-> "undefined", n |-> 0]

\* replace === true ? true : false
StrictTrue(x) == x = "true"
ReplaceArgs == {"true", "undefined"}

\* if (!(mediaIDArr instanceof Array)) mediaIDArr = [mediaIDArr]
ArrayArg(items) == [array |-> TRUE, scalar |-> "", items |-> items]
ScalarArg(m) == [array |-> FALSE, scalar |-> m, items |-> << >>]
AsArray(a) == IF a.array THEN a.items ELSE <<a.scalar>>
MediaArgs ==
  {ArrayArg(l) : l \in {<< >>, <<"m1">>, <<"m1", "m2">>}} \cup {ScalarArg("m2")}
\* the record of the last replace of a user's set that ran with no other
\* operation on that user, while no insert or clear has been called since
NoSnap == [valid |-> FALSE, ids |-> {}]
Snap(ids) == [valid |-> TRUE, ids |-> ids]

\* A call in progress: the operation, its arguments, the command it has on
\* the connection, and (history, kept for a replace) of the operations on its
\* user in progress with it so far: whether there was none (alone), whether
\* none was an insert or a clear (pure), and the ids of those that were
\* replaces (rivals).
Op(name, cmd, key, user) ==
  [name |-> name, cmd |-> cmd, key |-> key, user |-> user, count |-> 0,
   mediaID |-> "", ids |-> << >>, replace |-> FALSE, score |-> 0,
   alone |-> TRUE, pure |-> TRUE, rivals |-> {}]
NoOp == Op("none", "none", "", "")

\* an increment of the counter at key k is in progress
Incrementing(q, k) == \E i \in 1..Len(q) : q[i].cmd = "incrby" /\ q[i].key = k

CacheOps == {"checkMediaSaved", "saveLikedMedia", "deleteLikedCache"}
OnUser(q, u) == {i \in 1..Len(q) : q[i].name \in CacheOps /\ q[i].user = u}
SetOf(seq) == {seq[i] : i \in 1..Len(seq)}
\* a saveLikedMedia for u is in progress
Inserting(q, u) == \E i \in OnUser(q, u) : q[i].name = "saveLikedMedia"

\* an insert or a clear, which changes the set and is no replace
Impure(op) == op.name # "checkMediaSaved" /\ ~op.replace
Rival(op) == IF op.replace THEN {SetOf(op.ids)} ELSE {}

\* operation `new` on user u is called: what the replaces in progress for u
\* have met
Overlap(q, u, new) ==
  [i \in 1..Len(q) |->
     IF i \in OnUser(q, u) /\ q[i].replace
       THEN [q[i] EXCEPT !.alone = FALSE,
                         !.pure = @ /\ ~Impure(new),
                         !.rivals = @ \cup Rival(new)]
     ELSE q[i]]

\* what a replace called for u meets in progress
Meets(q, u, new) ==
  IF ~new.replace THEN new
  ELSE [new EXCEPT
          !.alone = OnUser(q, u) = {},
          !.pure = \A i \in OnUser(q, u) : ~Impure(q[i]),
          !.rivals = UNION {Rival(q[i]) : i \in OnUser(q, u)}]

\* History of the storage operations:
\*   added[u]     ids passed to any saveLikedMedia call for u
\*   stable[u]    ids of completed non-replace inserts for u, emptied by every
\*                DEL of u's set
\*   replaced[u]  see NoSnap
\*   cleared[u]   a deleteLikedCache for u has completed with no saveLikedMedia
\*                for u in progress, and none has been called since
\*   sum[k]       the counts passed to the increments called for key k
\*   raced        counter keys for which an increment was called while
\*                another increment of that key was in progress
\*   lost         counter keys one of whose increments never completed
\*   faults       the connection failures so far
InitTrack ==
  [added |-> [u \in UserIDs |-> {}], stable |-> [u \in UserIDs |-> {}],
   replaced |-> [u \in UserIDs |-> NoSnap], cleared |-> [u \in UserIDs |-> FALSE],
   sum |-> [k \in Keys |-> 0], raced |-> {}, lost |-> {}, faults |-> 0]

\* lastDone: the operation ended by the callback that ran in the last step,
\* the state of its promise and the members of its key's set afterwards;
\* NoneDone when the last step was not the last callback of an operation
NoneDone ==
  [op |-> NoOp, promise |-> "none", value |-> NoValue, err |-> NoError,
   members |-> {}]

\* lines 209-213, 219
checkMediaSaved(userID, mediaID) ==
  /\ Len(cmdq) < Cardinality(Callers)
  /\ LET savedLikesKey == getRedisCacheKey(userID)
         op == [Op("checkMediaSaved", "zscore", savedLikesKey, userID) EXCEPT
                  !.mediaID = mediaID]
     IN  cmdq' = Append(Overlap(cmdq, userID, op), op)
  /\ lastDone' = NoneDone
  /\ UNCHANGED <<redis, now, track, uncaught>>
  /\ UNCHANGED dvars

\* lines 222-239, 246-247, 266
saveLikedMedia(userID, mediaIDArr, replaceArg) ==
  /\ Len(cmdq) < Cardinality(Callers)
  /\ LET replace == StrictTrue(replaceArg)
         savedLikesKey == getRedisCacheKey(userID)
         score == now
         ids == AsArray(mediaIDArr)
         op == [Op("saveLikedMedia", IF replace THEN "del" ELSE "zadd",
                   savedLikesKey, userID) EXCEPT
                  !.ids = ids, !.replace = replace, !.score = score]
     IN  /\ cmdq' = Append(Overlap(cmdq, userID, op), Meets(cmdq, userID, op))
         /\ track' = [track EXCEPT !.added[userID] = @ \cup SetOf(ids),
                                   !.replaced[userID] = NoSnap,
                                   !.cleared[userID] = FALSE]
  /\ lastDone' = NoneDone
  /\ UNCHANGED <<redis, now, uncaught>>
  /\ UNCHANGED dvars

\* lines 269-272, 276
deleteLikedCache(userID) ==
  /\ Len(cmdq) < Cardinality(Callers)
  /\ LET savedLikesKey == getRedisCacheKey(userID)
         op == Op("deleteLikedCache", "del", savedLikesKey, userID)
     IN  cmdq' = Append(Overlap(cmdq, userID, op), op)
  /\ track' = [track EXCEPT !.replaced[userID] = NoSnap]
  /\ lastDone' = NoneDone
  /\ UNCHANGED <<redis, now, uncaught>>
  /\ UNCHANGED dvars

\* lines 172-175, 181
incUserSavedCount(userID, count) ==
  /\ Len(cmdq) < Cardinality(Callers)
  /\ LET key == getUserSavedCountKey(userID)
     IN  /\ track.sum[key] + count <= MaxSum
         /\ cmdq' = Append(cmdq, [Op("incUserSavedCount", "incrby", key, userID)
                                    EXCEPT !.count = count])
         /\ track' = [track EXCEPT
                       !.sum[key] = @ + count,
                       !.raced = @ \cup (IF Incrementing(cmdq, key) THEN {key} ELSE {})]
  /\ lastDone' = NoneDone
  /\ UNCHANGED <<redis, now, uncaught>>
  /\ UNCHANGED dvars

\* lines 184-187, 193
incTotalSavedCount(count) ==
  /\ Len(cmdq) < Cardinality(Callers)
  /\ track.sum[totalSavedCountKey] + count <= MaxSum
  /\ cmdq' = Append(cmdq, [Op("incTotalSavedCount", "incrby", totalSavedCountKey, "")
                             EXCEPT !.count = count])
  /\ track' = [track EXCEPT
                !.sum[totalSavedCountKey] = @ + count,
                !.raced = @ \cup (IF Incrementing(cmdq, totalSavedCountKey)
                                    THEN {totalSavedCountKey} ELSE {})]
  /\ lastDone' = NoneDone
  /\ UNCHANGED <<redis, now, uncaught>>
  /\ UNCHANGED dvars

\* lines 196-199, 205
getTotalSavedCount ==
  /\ Len(cmdq) < Cardinality(Callers)
  /\ cmdq' = Append(cmdq, Op("getTotalSavedCount", "get", totalSavedCountKey, ""))
  /\ lastDone' = NoneDone
  /\ UNCHANGED <<redis, now, track, uncaught>>
  /\ UNCHANGED dvars

\* the clock behind Date.now() advances
Tick ==
  /\ now < MaxNow
  /\ now' = now + 1
  /\ lastDone' = NoneDone
  /\ UNCHANGED <<redis, cmdq, track, uncaught>>
  /\ UNCHANGED dvars

(***************************************************************************)
(* Storage: Redis answers the command at the head of the connection and the *)
(* client runs that command's callback.  Commands are answered in the order  *)
(* sent; a command sent by a callback goes behind those already sent.        *)
(***************************************************************************)
Exec(store, op) ==
  CASE op.cmd = "incrby" -> Incrby(store, op.key, op.count)
    [] op.cmd = "get"    -> Get(store, op.key)
    [] op.cmd = "zscore" -> Zscore(store, op.key, op.mediaID)
    [] op.cmd = "zadd"   -> Zadd(store, op.key, op.score, op.ids)
    [] op.cmd = "del"    -> Del(store, op.key)

\* the answer to the head command: the connection may fail instead
Answered(fail) ==
  IF fail THEN Answer(redis, ConnectionLost, Nil) ELSE Exec(redis, Head(cmdq))

Done(op, ans, promise, value) ==
  [op |-> op, promise |-> promise, value |-> value, err |-> ans.err,
   members |-> Members(ans.store[op.key])]

\* if (err) throw err;  -- the promise of the operation is left pending
Throw(op, ans) ==
  /\ redis' = ans.store
  /\ cmdq' = Tail(cmdq)
  /\ uncaught' = uncaught \cup {ans.err}
  /\ lastDone' = Done(op, ans, "pending", NoValue)
  /\ track' = [track EXCEPT
                !.lost = @ \cup (IF op.cmd = "incrby" THEN {op.key} ELSE {}),
                !.faults = @ + (IF ans.err = ConnectionLost THEN 1 ELSE 0)]

\* deferred.resolve(value)
Resolve(op, ans, value) ==
  /\ redis' = ans.store
  /\ cmdq' = Tail(cmdq)
  /\ lastDone' = Done(op, ans, "resolved", value)
  /\ UNCHANGED uncaught

\* lines 175-179
incUserSavedCountCallback(fail) ==
  /\ fail => track.faults < MaxFaults
  /\ cmdq # << >> /\ Head(cmdq).name = "incUserSavedCount"
  /\ LET op == Head(cmdq)
         ans == Answered(fail)
     IN  IF ans.err # NoError THEN Throw(op, ans)
         ELSE Resolve(op, ans, BoolValue(Truthy(ans.reply))) /\ UNCHANGED track
  /\ UNCHANGED now
  /\ UNCHANGED dvars

\* lines 187-191
incTotalSavedCountCallback(fail) ==
  /\ fail => track.faults < MaxFaults
  /\ cmdq # << >> /\ Head(cmdq).name = "incTotalSavedCount"
  /\ LET op == Head(cmdq)
         ans == Answered(fail)
     IN  IF ans.err # NoError THEN Throw(op, ans)
         ELSE Resolve(op, ans, BoolValue(Truthy(ans.reply))) /\ UNCHANGED track
  /\ UNCHANGED now
  /\ UNCHANGED dvars

\* lines 199-203
getTotalSavedCountCallback(fail) ==
  /\ fail => track.faults < MaxFaults
  /\ cmdq # << >> /\ Head(cmdq).name = "getTotalSavedCount"
  /\ LET op == Head(cmdq)
         ans == Answered(fail)
     IN  IF ans.err # NoError THEN Throw(op, ans)
         ELSE Resolve(op, ans, ans.reply) /\ UNCHANGED track
  /\ UNCHANGED now
  /\ UNCHANGED dvars

\* lines 213-217
checkMediaSavedCallback(fail) ==
  /\ fail => track.faults < MaxFaults
  /\ cmdq # << >> /\ Head(cmdq).name = "checkMediaSaved"
  /\ LET op == Head(cmdq)
         ans == Answered(fail)
     IN  IF ans.err # NoError THEN Throw(op, ans)
         ELSE Resolve(op, ans, BoolValue(Truthy(ans.reply))) /\ UNCHANGED track
  /\ UNCHANGED now
  /\ UNCHANGED dvars

\* the callback of del in saveLikedMedia with replace: it sends the zadd
\* (lines 239-241)
saveLikedMediaDelCallback(fail) ==
  /\ fail => track.faults < MaxFaults
  /\ cmdq # << >> /\ Head(cmdq).name = "saveLikedMedia" /\ Head(cmdq).cmd = "del"
  /\ LET op == Head(cmdq)
         ans == Answered(fail)
     IN  IF ans.err # NoError THEN Throw(op, ans)
         ELSE /\ redis' = ans.store
              /\ cmdq' = Append(Tail(cmdq), [op EXCEPT !.cmd = "zadd"])
              /\ track' = [track EXCEPT !.stable[op.user] = {}]
              /\ lastDone' = NoneDone
              /\ UNCHANGED uncaught
  /\ UNCHANGED now
  /\ UNCHANGED dvars

\* the callback of zadd in saveLikedMedia (lines 241-244 and 247-249)
saveLikedMediaZaddCallback(fail) ==
  /\ fail => track.faults < MaxFaults
  /\ cmdq # << >> /\ Head(cmdq).name = "saveLikedMedia" /\ Head(cmdq).cmd = "zadd"
  /\ LET op == Head(cmdq)
         ans == Answered(fail)
     IN  IF ans.err # NoError THEN Throw(op, ans)
         ELSE /\ Resolve(op, ans, NoValue)
              /\ track' =
                   IF op.replace
                     THEN [track EXCEPT !.replaced[op.user] =
                             IF op.alone THEN Snap(SetOf(op.ids)) ELSE NoSnap]
                   ELSE [track EXCEPT !.stable[op.user] = @ \cup SetOf(op.ids)]
  /\ UNCHANGED now
  /\ UNCHANGED dvars

\* lines 272-275
deleteLikedCacheCallback(fail) ==
  /\ fail => track.faults < MaxFaults
  /\ cmdq # << >> /\ Head(cmdq).name = "deleteLikedCache"
  /\ LET op == Head(cmdq)
         ans == Answered(fail)
     IN  IF ans.err # NoError THEN Throw(op, ans)
         ELSE /\ Resolve(op, ans, NoValue)
              /\ track' = [track EXCEPT
                            !.stable[op.user] = {},
                            !.cleared[op.user] = ~Inserting(Tail(cmdq), op.user)]
  /\ UNCHANGED now
  /\ UNCHANGED dvars

(***************************************************************************)
(* Specifications                                                           *)
(***************************************************************************)
\* Redis empty, with nothing on the connection
InitStorage ==
  /\ redis = [k \in Keys |-> NoKey]
  /\ cmdq = << >>
  /\ now = 1
  /\ lastDone = NoneDone
  /\ track = InitTrack

InitD == InitDropbox /\ InitStorage

InitS == InitDropboxFor({}) /\ InitStorage

NextCache ==
  \/ \E u \in Users, m \in MediaIDs : checkMediaSaved(u, m)
  \/ \E u \in Users, a \in MediaArgs, r \in ReplaceArgs : saveLikedMedia(u, a, r)
  \/ \E u \in Users : deleteLikedCache(u)
  \/ \E fail \in BOOLEAN : checkMediaSavedCallback(fail)
  \/ \E fail \in BOOLEAN : saveLikedMediaDelCallback(fail)
  \/ \E fail \in BOOLEAN : saveLikedMediaZaddCallback(fail)
  \/ \E fail \in BOOLEAN : deleteLikedCacheCallback(fail)
  \/ Tick

NextCounter ==
  \/ \E u \in Users, c \in Counts : incUserSavedCount(u, c)
  \/ \E c \in Counts : incTotalSavedCount(c)
  \/ getTotalSavedCount
  \/ \E fail \in BOOLEAN : incUserSavedCountCallback(fail)
  \/ \E fail \in BOOLEAN : incTotalSavedCountCallback(fail)
  \/ \E fail \in BOOLEAN : getTotalSavedCountCallback(fail)

SpecDropbox == InitD /\ [][NextDropbox]_vars
SpecCache == InitS /\ [][NextCache]_vars
SpecCounter == InitS /\ [][NextCounter]_vars

\* The dedup cache and the counters together, for every value of userID: a
\* sequence of operations, each called when the one before it has ended.
StoreCounts == {0, 1, 2}
Idle == cmdq = << >>
NextStore ==
  \/ Idle /\ \E u \in UserIDs, m \in MediaIDs : checkMediaSaved(u, m)
  \/ Idle /\ \E u \in UserIDs, r \in ReplaceArgs : saveLikedMedia(u, ScalarArg("m2"), r)
  \/ Idle /\ \E u \in UserIDs : deleteLikedCache(u)
  \/ Idle /\ \E u \in UserIDs, c \in StoreCounts : incUserSavedCount(u, c)
  \/ Idle /\ \E c \in StoreCounts : incTotalSavedCount(c)
  \/ Idle /\ getTotalSavedCount
  \/ \E fail \in BOOLEAN : checkMediaSavedCallback(fail)
  \/ \E fail \in BOOLEAN : saveLikedMediaDelCallback(fail)
  \/ \E fail \in BOOLEAN : saveLikedMediaZaddCallback(fail)
  \/ \E fail \in BOOLEAN : deleteLikedCacheCallback(fail)
  \/ \E fail \in BOOLEAN : incUserSavedCountCallback(fail)
  \/ \E fail \in BOOLEAN : incTotalSavedCountCallback(fail)
  \/ \E fail \in BOOLEAN : getTotalSavedCountCallback(fail)

SpecStore == InitS /\ [][NextStore]_vars

(***************************************************************************)
(* The sync of one liked media item, as the specification describes it: the *)
(* item is submitted to the provider, and once the submission has succeeded *)
(* the item is inserted into the user's saved set.  An item already given   *)
(* to the saved set is not submitted again.                                 *)
(***************************************************************************)
SyncUser == "1"
\* the media item a params object is the submission of
SyncMedia(p) == IF p = "p1" THEN "m1" ELSE "m2"

\* the item is not in hand for the saved set, and no submission of it is
\* under way or has succeeded: submit it
SyncSubmit(c, p) ==
  /\ SyncMedia(p) \notin track.added[SyncUser]
  /\ pc[p] = "idle" \/ Outcome(p).kind = "err"
  /\ SaveUrlP(c, p)

\* the promise of the submission is resolved: insert the item
SyncSaved(p) ==
  /\ hist[p].style = "promise" /\ Outcome(p).kind = "ok"
  /\ SyncMedia(p) \notin track.added[SyncUser]
  /\ saveLikedMedia(SyncUser, ScalarArg(SyncMedia(p)), "undefined")

NextSync ==
  \/ \E c \in Clients, p \in Params : SyncSubmit(c, p)
  \/ \E p \in Params, r \in Responses : SaveUrlPCallback(p, r)
  \/ \E p \in Params : SaveUrlPRetry(p)
  \/ \E p \in Params : \E i \in 1..Len(deferreds[p]) : SaveUrlPThen(p, i)
  \/ \E p \in Params : SyncSaved(p)
  \/ \E fail \in BOOLEAN : saveLikedMediaZaddCallback(fail)
  \/ \E m \in MediaIDs : checkMediaSaved(SyncUser, m)
  \/ \E fail \in BOOLEAN : checkMediaSavedCallback(fail)

SpecSync == InitD /\ [][NextSync]_vars

(***************************************************************************)
(* The two entry points side by side: one params object is submitted once   *)
(* with saveUrlP, another once with saveUrl, and the provider gives the      *)
(* second the very answers it has given the first, one by one.              *)
(***************************************************************************)
ByPromise == "p1"
ByCallback == "p2"

InitDual == InitDropboxFor(Params) /\ InitStorage

\* the answer the provider owes ByCallback: the one ByPromise got at that place
Owed == hist[ByCallback].responses < hist[ByPromise].responses
InStep == hist[ByCallback].responses = hist[ByPromise].responses

NextDual ==
  \/ \E c \in Clients : pc[ByPromise] = "idle" /\ SaveUrlP(c, ByPromise)
  \/ \E c \in Clients : pc[ByCallback] = "idle" /\ SaveUrl(c, ByCallback)
  \/ \E r \in Responses : InStep /\ SaveUrlPCallback(ByPromise, r)
  \/ SaveUrlPRetry(ByPromise)
  \/ \E i \in 1..Len(deferreds[ByPromise]) : SaveUrlPThen(ByPromise, i)
  \/ Owed /\ SaveUrlEnd(ByCallback, hist[ByPromise].last)
  \/ Owed /\ hist[ByPromise].last = NetError /\ SaveUrlReqError(ByCallback)
  \/ SaveUrlTimeout(ByCallback)

SpecDual == InitDual /\ [][NextDual]_vars

(***************************************************************************)
(* Two params objects, each submitted once, on any client and with either   *)
(* entry point, their requests answered in any order.                       *)
(***************************************************************************)
NextPair ==
  \/ \E c \in Clients, p \in Params : pc[p] = "idle" /\ SaveUrlP(c, p)
  \/ \E p \in Params, r \in Responses : SaveUrlPCallback(p, r)
  \/ \E p \in Params : SaveUrlPRetry(p)
  \/ \E p \in Params : \E i \in 1..Len(deferreds[p]) : SaveUrlPThen(p, i)
  \/ \E c \in Clients, p \in Params : pc[p] = "idle" /\ SaveUrl(c, p)
  \/ \E p \in Params, r \in Responses : SaveUrlEnd(p, r)
  \/ \E p \in Params : SaveUrlReqError(p)
  \/ \E p \in Params : SaveUrlTimeout(p)

SpecPair == InitDual /\ [][NextPair]_vars

(***************************************************************************)
(* Claims about the submission with retry (checked under SpecDropbox)        *)
(***************************************************************************)
Submitted == {p \in Params : hist[p].style # "none"}

\* the delays 300*1, 300*2, ..., 300*n
LinearDelays(n) == [i \in 1..n |-> 300 * i]

RECURSIVE SumSeq(_)
SumSeq(q) == IF q = << >> THEN 0 ELSE Head(q) + SumSeq(Tail(q))

\* what the innermost call has given: the deferred of the innermost call of
\* saveUrlP, or the cb of saveUrl
Given(p) ==
  IF hist[p].style = "promise" THEN
    LET d == deferreds[p][Len(deferreds[p])]
    IN  IF d.state = "resolved" THEN [kind |-> "ok", value |-> d.value]
        ELSE IF d.state = "rejected" THEN [kind |-> "err", value |-> d.value]
        ELSE NoOutcome
  ELSE Outcome(p)

\* every deferred of the chain is pending or settled as the innermost one is
ChainAgrees(p) ==
  hist[p].style = "promise" =>
    \A i \in 1..Len(deferreds[p]) :
      deferreds[p][i].state = "pending"
        \/ deferreds[p][i] = deferreds[p][Len(deferreds[p])]

\* the submission has ended: nothing in flight, no timer armed
Ended(p) == pc[p] = "returned" /\ inflight[p] = 0 /\ timers[p] = 0

RetriesExhausted == [kind |-> "err", value |-> NewError(RetriesFailedMsg)]

\* the error strings of the model that do not contain 'Failed to grab locks'
NonLockMessages == {MsgNearMiss, MsgOAuth, MsgEmpty}

\* C1: a params object submitted with retry = 0 whose every answer is the
\* lock-contention error: while fewer than maxRetry answers have come the
\* submission goes on, with the delays armed so far 300*1, 300*2, ...; the
\* maxRetry-th answer ends it with Error('Retries failed') after exactly
\* maxRetry calls and the delays 300*1 .. 300*(maxRetry-1), which add up to
\* 300*(1+...+(maxRetry-1)); the caller is given nothing else.
C1_RetriesExhausted ==
  \A p \in Submitted :
    (hist[p].entry = 0 /\ hist[p].responses >= 1
       /\ hist[p].locks = hist[p].responses) =>
      /\ hist[p].calls <= MaxRetry
      /\ ChainAgrees(p)
      /\ IF hist[p].responses < MaxRetry
           THEN /\ ~Settled(p) /\ Given(p) = NoOutcome
                /\ hist[p].delays = LinearDelays(hist[p].responses)
           ELSE /\ Ended(p)
                /\ Given(p) = RetriesExhausted
                /\ hist[p].calls = MaxRetry
                /\ hist[p].delays = LinearDelays(MaxRetry - 1)
                /\ SumSeq(hist[p].delays) = 300 * (((MaxRetry - 1) * MaxRetry) \div 2)
                /\ Settled(p) => Outcome(p) = RetriesExhausted

\* C1 witness: the promise of saveUrlP rejected with 'Retries failed' after
\* maxRetry lock-contention answers
C1_Witness ==
  \E p \in Submitted :
    /\ hist[p].style = "promise" /\ hist[p].entry = 0
    /\ hist[p].locks = MaxRetry /\ hist[p].responses = MaxRetry
    /\ Outcome(p) = RetriesExhausted

\* C2: an answer carrying an error that does not contain the lock-contention
\* substring ends the submission at once: no further call is made (after a
\* first answer exactly one call has been made), and the caller is given that
\* error and nothing else.
C2_NonLockErrorSurfaced ==
  \A p \in Submitted : \A m \in NonLockMessages :
    (hist[p].responses >= 1 /\ hist[p].last = JsonResponse(ErrorBody(m))) =>
      /\ Ended(p)
      /\ hist[p].calls = hist[p].responses
      /\ hist[p].calls = hist[p].locks + 1
      /\ hist[p].responses = 1 => hist[p].calls = 1
      /\ Given(p) = [kind |-> "err", value |-> NewError(m)]
      /\ ChainAgrees(p)
      /\ Settled(p) => Outcome(p) = [kind |-> "err", value |-> NewError(m)]

\* C2 witness: the caller of saveUrlP is given the non-lock error that
\* answered a retry
C2_Witness ==
  \E p \in Submitted :
    /\ hist[p].style = "promise" /\ hist[p].responses >= 2
    /\ hist[p].last = JsonResponse(ErrorBody(MsgOAuth))
    /\ Outcome(p) = [kind |-> "err", value |-> NewError(MsgOAuth)]

\* C3: an answer whose body is not valid JSON ends the submission with an
\* error given to the caller, in saveUrlP and in saveUrl: never a success,
\* never a retry.
C3_MalformedIsError ==
  \A p \in Submitted :
    (hist[p].responses >= 1 /\ hist[p].last = GarbageResponse) =>
      /\ Ended(p)
      /\ hist[p].calls = hist[p].responses
      /\ Given(p).kind = "err"

\* C9: a params object submitted with retry = 0 whose first k answers are the
\* lock-contention error and whose answer k+1 is a body with no error field:
\* k < maxRetry, the submission has ended after k+1 calls, the delays were
\* 300*1 .. 300*k, and the caller is given that body unchanged.
C9_SuccessAfterRetries ==
  \A p \in Submitted :
    (hist[p].entry = 0 /\ hist[p].last = JsonResponse(PendingBody)
       /\ hist[p].responses = hist[p].locks + 1) =>
      /\ hist[p].locks < MaxRetry
      /\ Ended(p)
      /\ hist[p].calls = hist[p].locks + 1
      /\ retry[p] = hist[p].locks
      /\ hist[p].delays = LinearDelays(hist[p].locks)
      /\ Given(p) = [kind |-> "ok", value |-> PendingBody]
      /\ ChainAgrees(p)
      /\ Settled(p) => Outcome(p) = [kind |-> "ok", value |-> PendingBody]

\* C9 witness: the promise of saveUrlP resolved with the body after
\* maxRetry - 1 retries
C9_Witness ==
  \E p \in Submitted :
    /\ hist[p].style = "promise" /\ hist[p].entry = 0
    /\ hist[p].locks = MaxRetry - 1
    /\ Outcome(p) = [kind |-> "ok", value |-> PendingBody]

\* C10: within one submission at most one request is in flight, and never
\* together with an armed backoff timer: every call after the first was
\* issued when a backoff armed by an earlier answer had elapsed.
C10_SequentialRetries ==
  \A p \in Submitted :
    /\ inflight[p] + timers[p] <= 1
    /\ hist[p].calls = hist[p].responses + inflight[p]
    /\ hist[p].calls = 1 + Len(hist[p].delays) - timers[p]
    /\ Len(hist[p].delays) <= hist[p].locks

\* C10 witness: a retry request in flight
C10_Witness ==
  \E p \in Submitted : inflight[p] = 1 /\ hist[p].calls >= 3

\* C17: whatever params.retry is on entry, also for a params object
\* submitted again, a submission makes at most maxRetry calls to the provider.
C17_SettlesWithinMaxRetry ==
  \A p \in Submitted : hist[p].calls <= MaxRetry

\* C18: a params object submitted with saveUrlP and one submitted with
\* saveUrl, both with the same retry on entry and given the same answers so
\* far: the same delays have been armed (so the same number of calls made),
\* both have ended or neither has, both have thrown or neither has, and what
\* the caller is given is the same: the same body, or the same error.
C18_StylesEquivalent ==
  (/\ hist[ByPromise].style = "promise" /\ hist[ByCallback].style = "callback"
   /\ hist[ByPromise].entry = hist[ByCallback].entry
   /\ hist[ByPromise].responses >= 1 /\ InStep) =>
    /\ hist[ByPromise].delays = hist[ByCallback].delays
    /\ hist[ByPromise].locks = hist[ByCallback].locks
    /\ Ended(ByPromise) <=> Ended(ByCallback)
    /\ pc[ByPromise] = "thrown" <=> pc[ByCallback] = "thrown"
    /\ Given(ByPromise) = Given(ByCallback)

\* What a params object submitted alone on client c with retry `entry` has
\* been given when its answers so far were `locks` lock-contention errors,
\* the last answer being `last`.
GivenAlone(style, c, entry, locks, last) ==
  IF last.net = "error" THEN NoOutcome
  ELSE IF ~last.json THEN
    IF style = "promise" THEN [kind |-> "ok", value |-> StringValue(last.str)]
    ELSE [kind |-> "err", value |-> SyntaxError]
  ELSE IF ~hasOwnProperty(last.obj, "error") THEN [kind |-> "ok", value |-> last.obj]
  ELSE IF ~IsLockError(last.obj.error)
    THEN [kind |-> "err", value |-> NewError(last.obj.error)]
  ELSE IF entry + locks = maxRetry(c) THEN RetriesExhausted
  ELSE NoOutcome

\* C19: two params objects submitted on any clients, their requests answered
\* in any order: params.retry of each is its value on entry plus the lock
\* errors that answered its own requests, its delays are 300 times the
\* values its own retry took, it has made one call and one more for each
\* delay elapsed, and what its caller is given is what the object would have
\* been given alone on its own client with its own answers.
C19_JobsIndependent ==
  \A p \in Submitted :
    /\ retry[p] = hist[p].entry + hist[p].locks
    /\ hist[p].calls = hist[p].responses + inflight[p]
    /\ hist[p].calls = 1 + Len(hist[p].delays) - timers[p]
    /\ \A i \in 1..Len(hist[p].delays) :
         hist[p].delays[i] = 300 * (hist[p].entry + i)
    /\ hist[p].responses >= 1 =>
         /\ Given(p) = GivenAlone(hist[p].style, hist[p].client, hist[p].entry,
                                  hist[p].locks, hist[p].last)
         /\ Len(hist[p].delays) =
              hist[p].locks - (IF Given(p) = RetriesExhausted THEN 1 ELSE 0)

\* C19 witness: a params object submitted on one client is rejected with
\* 'Retries failed' while the other, submitted on the other client after it,
\* has had lock errors of its own and is still retrying
C19_Witness ==
  \E p \in Submitted, q \in Submitted :
    /\ p # q /\ hist[p].client # hist[q].client
    /\ _this = hist[q].client
    /\ Given(p) = RetriesExhausted /\ hist[p].locks = MaxRetry
    /\ hist[q].locks >= 2 /\ pc[q] \in {"request", "timer"}

(***************************************************************************)
(* Claims about the dedup cache (SpecCache) and the counters (SpecCounter)  *)
(***************************************************************************)
\* the last step ended operation `name` with its promise resolved
Completed(name) == lastDone.op.name = name /\ lastDone.promise = "resolved"

CounterKeys == {getUserSavedCountKey(u) : u \in Users} \cup {totalSavedCountKey}
CounterValue(k) == IF redis[k].type = "string" THEN redis[k].n ELSE 0

\* C4: a replace is atomic.  Of what the claim says, the case of replaces
\* running with each other: a completed saveLikedMedia(userID, ids, true)
\* during which the user's other operations in progress were replaces or
\* membership checks only leaves exactly ids or exactly the ids of one of
\* those replaces, never a union.
C4_ReplaceAtomic ==
  (Completed("saveLikedMedia") /\ lastDone.op.replace /\ lastDone.op.pure) =>
    lastDone.members \in {SetOf(lastDone.op.ids)} \cup lastDone.op.rivals

\* C5: a saveLikedMedia(userID, ids, true) during which no other operation on
\* the user was in progress leaves exactly ids, and as long as no insert or
\* clear for the user is called after it, checkMediaSaved(userID, x) resolves
\* true for x in ids and false for every other x.
C5_ReplaceIsDestructive ==
  /\ (Completed("saveLikedMedia") /\ lastDone.op.replace /\ lastDone.op.alone) =>
       lastDone.members = SetOf(lastDone.op.ids)
  /\ (Completed("checkMediaSaved") /\ track.replaced[lastDone.op.user].valid) =>
       lastDone.value =
         BoolValue(lastDone.op.mediaID \in track.replaced[lastDone.op.user].ids)

\* C5 witness: after an undisturbed replace, checkMediaSaved resolves false
\* for an id that an earlier insert was given and the replace was not
C5_Witness ==
  /\ Completed("checkMediaSaved")
  /\ track.replaced[lastDone.op.user].valid
  /\ lastDone.op.mediaID \notin track.replaced[lastDone.op.user].ids
  /\ lastDone.op.mediaID \in track.added[lastDone.op.user]
  /\ lastDone.value = BoolValue(FALSE)

\* C6: checkMediaSaved(userID, x) resolves false when x was never given to an
\* insert for the user or the user's set does not exist, and true when a
\* non-replace insert of x for the user has completed and no DEL of the
\* user's set (replace or clear) has run since.
C6_ContainsAfterInsert ==
  Completed("checkMediaSaved") =>
    /\ lastDone.op.mediaID \notin track.added[lastDone.op.user] =>
         lastDone.value = BoolValue(FALSE)
    /\ redis[lastDone.op.key].type = "none" => lastDone.value = BoolValue(FALSE)
    /\ lastDone.op.mediaID \in track.stable[lastDone.op.user] =>
         lastDone.value = BoolValue(TRUE)

\* C6 witness: checkMediaSaved resolves true for an id of a completed
\* non-replace insert
C6_Witness ==
  /\ Completed("checkMediaSaved")
  /\ lastDone.op.mediaID \in track.stable[lastDone.op.user]
  /\ lastDone.value = BoolValue(TRUE)

\* C7: once every increment called for a counter key has completed, the
\* counter holds its value at the start (none) plus the sum of the counts
\* passed, whatever the order in which the increments were called and answered.
C7_NoLostIncrement ==
  \A k \in CounterKeys :
    (~Incrementing(cmdq, k) /\ k \notin track.lost) =>
      CounterValue(k) = track.sum[k]

\* C7 witness: a user's counter and the total both incremented by calls that
\* overlapped, all completed
C7_Witness ==
  /\ cmdq = << >> /\ track.lost = {}
  /\ \E u \in Users : getUserSavedCountKey(u) \in track.raced
                        /\ CounterValue(getUserSavedCountKey(u)) >= 2
  /\ CounterValue(totalSavedCountKey) >= 1

\* C8: an operation whose Redis call failed has its promise rejected with the
\* error, and nothing is thrown out of the callback.
C8_FailureRejects ==
  /\ uncaught = {}
  /\ lastDone.err # NoError =>
       (lastDone.promise = "rejected" /\ lastDone.value = lastDone.err)

\* C13: once a deleteLikedCache(userID) has completed with no saveLikedMedia
\* for the user in progress, the user's set is gone, and until a
\* saveLikedMedia for the user is called every checkMediaSaved(userID, x)
\* resolves false, whatever was inserted before.
C13_ClearEmpties ==
  /\ (Completed("deleteLikedCache") /\ track.cleared[lastDone.op.user]) =>
       (lastDone.members = {} /\ redis[lastDone.op.key].type = "none")
  /\ (Completed("checkMediaSaved") /\ track.cleared[lastDone.op.user]) =>
       lastDone.value = BoolValue(FALSE)

\* C13 witness: every call so far has succeeded, an id was inserted, the
\* set was cleared, and checkMediaSaved resolves false for that id
C13_Witness ==
  /\ Completed("checkMediaSaved") /\ track.cleared[lastDone.op.user]
  /\ uncaught = {}
  /\ lastDone.op.mediaID \in track.added[lastDone.op.user]
  /\ lastDone.value = BoolValue(FALSE)

\* the step in which the ZADD of a saveLikedMedia without replace is answered
InsertAnswered ==
  /\ cmdq # << >> /\ Head(cmdq).name = "saveLikedMedia"
  /\ Head(cmdq).cmd = "zadd" /\ ~Head(cmdq).replace
  /\ lastDone'.op = Head(cmdq)

\* C14: in the step that answers the ZADD of a non-replace saveLikedMedia:
\* when its ids are all in the set already, it fails only if the connection
\* does; when it succeeds, the members are those before and its ids (the same
\* members, and as many, when the ids were there), every other member keeps
\* its score, each of its ids has the Date.now() of this call as score, and
\* that time is no earlier than the score the id had: of two calls for the
\* same id, also when both are in progress together, the later time stays.
C14_ReinsertRefreshes ==
  [][InsertAnswered =>
       LET op == Head(cmdq)
           ids == SetOf(op.ids)
           old == redis[op.key]
           new == redis'[op.key]
       IN  /\ (ids # {} /\ ids \subseteq Members(old)) =>
                lastDone'.err \in {NoError, ConnectionLost}
           /\ lastDone'.err = NoError =>
                /\ lastDone'.promise = "resolved"
                /\ Members(new) = Members(old) \cup ids
                /\ ids \subseteq Members(old) =>
                     /\ Members(new) = Members(old)
                     /\ Cardinality(new.z) = Cardinality(old.z)
                /\ \A e \in old.z : e[1] \notin ids => e \in new.z
                /\ \A e \in new.z : e[1] \in ids => e[2] = op.score
                /\ \A e \in old.z : e[1] \in ids => e[2] <= op.score]_vars

\* C14 witness: saveLikedMedia(userID, 'm2') called at time 2 has completed
\* and m2 has score 2 beside m1, which kept score 1
C14_Witness ==
  /\ Completed("saveLikedMedia") /\ ~lastDone.op.replace
  /\ lastDone.op.ids = <<"m2">> /\ lastDone.op.score = 2
  /\ redis[lastDone.op.key].z = {<<"m1", 1>>, <<"m2", 2>>}

\* C15: the promise of a completed incUserSavedCount(userID, count) or
\* incTotalSavedCount(count) is resolved with true when the counter is not
\* zero after the increment and with false when it is zero.
C15_IncrementReturnsNonZero ==
  (Completed("incUserSavedCount") \/ Completed("incTotalSavedCount")) =>
    /\ redis[lastDone.op.key].type = "string"
    /\ lastDone.value = BoolValue(redis[lastDone.op.key].n # 0)

\* C15 witness: incUserSavedCount(userID, 0) on a counter that is absent or
\* zero resolves false
C15_Witness ==
  /\ Completed("incUserSavedCount") /\ lastDone.op.count = 0
  /\ CounterValue(lastDone.op.key) = 0
  /\ lastDone.value = BoolValue(FALSE)

(***************************************************************************)
(* Claims about the sync of an item (SpecSync)                              *)
(***************************************************************************)
PendingResult == [kind |-> "ok", value |-> PendingBody]

\* C11: a media id is a member of the user's saved set, and checkMediaSaved
\* resolves true for it, only if the submission of that item has ended with
\* the Pending result.
C11_SavedOnlyAfterPending ==
  \A p \in Params :
    /\ SyncMedia(p) \in Members(redis[getRedisCacheKey(SyncUser)]) =>
         Outcome(p) = PendingResult
    /\ (Completed("checkMediaSaved") /\ lastDone.op.mediaID = SyncMedia(p)
          /\ lastDone.value = BoolValue(TRUE)) =>
         Outcome(p) = PendingResult

(***************************************************************************)
(* Claims about the cache and the counters together (SpecStore)             *)
(***************************************************************************)
AllCounterKeys == {getUserSavedCountKey(u) : u \in UserIDs} \cup {totalSavedCountKey}

\* C12: in every step, every per-user counter and the total counter keep
\* their value or grow, a counter that exists goes on existing, and a step
\* that changes a counter is the INCRBY of an incUserSavedCount or
\* incTotalSavedCount for that counter's key: checkMediaSaved, saveLikedMedia
\* (insert and replace), deleteLikedCache and getTotalSavedCount change none.
C12_CountersMonotone ==
  [][\A k \in AllCounterKeys :
       /\ CounterValue(k)' >= CounterValue(k)
       /\ redis[k].type = "string" => redis'[k].type = "string"
       /\ redis'[k] # redis[k] =>
            /\ cmdq # << >>
            /\ Head(cmdq).name \in {"incUserSavedCount", "incTotalSavedCount"}
            /\ Head(cmdq).cmd = "incrby" /\ Head(cmdq).key = k]_vars

\* C12 witness: a deleteLikedCache for a user has completed and that user's
\* counter and the total still hold what was added
C12_Witness ==
  /\ Completed("deleteLikedCache")
  /\ CounterValue(getUserSavedCountKey(lastDone.op.user)) >= 2
  /\ CounterValue(totalSavedCountKey) >= 1

\* C16: the step that answers the command of an operation called for userID
\* changes that user's own key only: a checkMediaSaved, saveLikedMedia or
\* deleteLikedCache leaves every other user's saved set, every user's counter
\* and the total as they were; an incUserSavedCount leaves every saved set,
\* every other user's counter and the total as they were; and an
\* incTotalSavedCount leaves every saved set and every user's counter as they
\* were.
C16_OwnKeyOnly ==
  [][cmdq # << >> =>
       LET op == Head(cmdq)
           Same(k) == redis'[k] = redis[k]
       IN  /\ op.name \in CacheOps =>
                /\ \A v \in UserIDs \ {op.user} : Same(getRedisCacheKey(v))
                /\ \A v \in UserIDs : Same(getUserSavedCountKey(v))
                /\ Same(totalSavedCountKey)
           /\ op.name = "incUserSavedCount" =>
                /\ \A v \in UserIDs : Same(getRedisCacheKey(v))
                /\ \A v \in UserIDs \ {op.user} : Same(getUserSavedCountKey(v))
                /\ Same(totalSavedCountKey)
           /\ op.name = "incTotalSavedCount" =>
                /\ \A v \in UserIDs : Same(getRedisCacheKey(v))
                /\ \A v \in UserIDs : Same(getUserSavedCountKey(v))]_vars

====
